---- MODULE Spec2Model ----
(***************************************************************************)
(* Model of bcl_event_bot (src/main.py): the events watch loop, the        *)
(* due-event evaluation of check_and_send_once and the sent-record ledger  *)
(* kept in sent_records.json.                                              *)
(*                                                                         *)
(* Time is counted in half minutes since 00:00 UTC of day 0, a Monday.     *)
(* An even value 2*m is the instant of minute m exactly, an odd value      *)
(* 2*m+1 stands for any instant strictly between minute m and minute m+1.  *)
(* Every instant the code compares "now" with is a whole minute, so the    *)
(* comparisons of the code are exact on this scale.                        *)
(***************************************************************************)
EXTENDS Integers, Sequences, FiniteSets, TLC

(***************************************************************************)
(* Bounds of the model.                                                    *)
(***************************************************************************)
MaxTicks == 3       \* wake-ups of the loop in one behaviour
MaxEdits == 1       \* external edits of events.json
MaxRestarts == 1    \* stop/start cycles of the process between ticks
MaxCrashes == 1     \* crashes of the process inside a tick
MaxPhases == 2      \* length of a list of phases in a ledger given from outside
MaxSwaps == 2       \* external edits of events.json while the loop reads it

(***************************************************************************)
(* Program constants.                                                      *)
(***************************************************************************)
Minute == 2                 \* half minutes in a minute (resolution of "now")
WINDOW_MINUTES == 5         \* main.py:22, when the environment sets no other
SLEEP_SECONDS == 60         \* main.py:206
PRE_HOURS == 1              \* main.py:156

Hour == 60 * Minute
Day == 24 * Hour
\* WINDOW_MINUTES of the running process: int(os.environ.get("WINDOW_MINUTES", "5"))
VARIABLE window

Window == window * Minute                  \* timedelta(minutes=WINDOW_MINUTES)
Sleep == (SLEEP_SECONDS * Minute) \div 60  \* asyncio.sleep(60)

WeekdayNames == <<"Mon", "Tue", "Wed", "Thu", "Fri", "Sat", "Sun">>

\* now.date(), and now.strftime("%Y-%m-%d"): one key per calendar day
DateOf(t) == t \div Day
\* now.strftime("%a")
WeekdayOf(t) == WeekdayNames[(DateOf(t) % 7) + 1]

\* an instant given as day, hour and minute
At(d, hh, mm) == d * Day + hh * Hour + mm * Minute

(***************************************************************************)
(* Dictionaries (Python dict): functions with a finite domain.             *)
(***************************************************************************)
EmptyDict == [k \in {} |-> <<>>]
Get(d, k, default) == IF k \in DOMAIN d THEN d[k] ELSE default
Put(d, k, v) == [x \in (DOMAIN d) \cup {k} |-> IF x = k THEN v ELSE d[x]]
Contains(s, x) == \E i \in 1..Len(s) : s[i] = x

(***************************************************************************)
(* JSON text of the ledger.  json.dumps writes a dict as an object, one    *)
(* member (key, value) per key, and what is under a key the same way;      *)
(* json.loads builds the dict back member by member, a later member        *)
(* replacing an earlier one of the same key.                               *)
(***************************************************************************)
RECURSIVE json_members(_, _)
\* the members json.dumps writes for the keys of d
json_members(d, keys) ==
    IF keys = {} THEN <<>>
    ELSE LET k == CHOOSE x \in keys : TRUE
         IN  << << k, d[k] >> >> \o json_members(d, keys \ {k})

\* json.dumps that leaves out a date under which there is no name
json_dumps_SkipsEmpty(data) ==
    LET full == { d \in DOMAIN data : DOMAIN data[d] # {} }
    IN  json_members([d \in full |-> json_members(data[d], DOMAIN data[d])], full)

\* json.dumps(data, ensure_ascii=False, indent=2) of a dict date -> name -> list
json_dumps(data) ==
    json_members([d \in DOMAIN data |-> json_members(data[d], DOMAIN data[d])],
                 DOMAIN data)

RECURSIVE json_object(_)
\* the dict json.loads builds from the members of an object
json_object(members) ==
    IF members = <<>> THEN EmptyDict
    ELSE LET n == Len(members)
         IN  Put(json_object(SubSeq(members, 1, n - 1)), members[n][1], members[n][2])

\* json.loads(text) of a text json.dumps wrote
json_loads(text) ==
    LET outer == json_object(text)
    IN  [d \in DOMAIN outer |-> json_object(outer[d])]

(***************************************************************************)
(* Files.  events.json and sent_records.json are absent, unreadable as     *)
(* JSON, or hold a JSON document: one given from outside, named by the     *)
(* value json.loads reads from it, or the text save_json wrote.            *)
(***************************************************************************)
MissingFile == [state |-> "missing", data |-> <<>>]
CorruptFile == [state |-> "corrupt", data |-> <<>>]
JsonFile(data) == [state |-> "ok", data |-> data]
WrittenFile(text) == [state |-> "written", data |-> text]

\* load_json(path, default): the default when the file is absent or json.loads raises
load_json(file, default) ==
    IF file.state = "missing" THEN default
    ELSE IF file.state = "corrupt" THEN default
    ELSE IF file.state = "written" THEN json_loads(file.data)
    ELSE file.data

\* save_json(path, data): write_text(json.dumps(data)) replaces the whole file
save_json(file, data) == WrittenFile(json_dumps(data))

(***************************************************************************)
(* Contents events.json takes in the model.  time is the pair the code     *)
(* gets from time_str.split(":").                                          *)
(***************************************************************************)
Ev(n, hh, mm, days) == [name_en |-> n, time |-> <<hh, mm>>, days |-> days]

EventFiles ==
    << JsonFile(<< Ev("AGB", 12, 0, {"Mon", "Tue"}) >>),
       JsonFile(<< Ev("AGB", 12, 2, {"Mon", "Tue"}), Ev("Raid", 11, 0, {"Mon"}) >>),
       JsonFile(<< Ev("Night", 0, 30, {"Mon", "Tue"}), Ev("Late", 0, 58, {"Tue"}) >>),
       MissingFile >>

\* Contents of events.json with a record check_and_send_once cannot evaluate:
\* no "time" key (ev["time"] raises KeyError), a time that does not split into
\* two numbers ("11".split(":") gives one part, the unpacking raises
\* ValueError), an hour datetime() rejects (ValueError).
MalformedFiles ==
    << JsonFile(<< Ev("AGB", 12, 0, {"Mon", "Tue"}),
                   [name_en |-> "Raid", days |-> {"Mon"}] >>),
       JsonFile(<< [name_en |-> "Raid", time |-> << 11 >>, days |-> {"Mon", "Tue"}],
                   Ev("AGB", 12, 0, {"Mon", "Tue"}) >>),
       JsonFile(<< Ev("AGB", 12, 0, {"Mon", "Tue"}), Ev("Night", 24, 0, {"Tue"}) >>) >>

\* every content of events.json the model knows
KnownFiles == EventFiles \o MalformedFiles

\* file_hash(path): None for an absent file, else the SHA-256 digest of its bytes;
\* distinct contents of the model have distinct digests
file_hash(file) ==
    IF file.state = "missing" THEN 0
    ELSE CHOOSE i \in 1..Len(KnownFiles) : KnownFiles[i] = file

\* half minutes a round of the loop may take beyond the sleep itself
Drifts == { 0, 1 }

\* instants at which the process may be started
StartTimes ==
    { At(0, 10, 58), At(0, 11, 4) + 1, At(0, 11, 5), At(0, 23, 30), At(0, 23, 58) + 1 }

\* how long the process may stay down between a stop and the next start
DownTimes == { Minute, Hour, Day }


(***************************************************************************)
(* Event model and scheduling.                                             *)
(***************************************************************************)
\* next_event_datetime_for_day(time_str, target_date): target_date at hh:mm:00
next_event_datetime_for_day(time_str, target_date) ==
    At(target_date, time_str[1], time_str[2])

\* next_event_datetime_for_day(ev["time"], now.date()) raises: KeyError for a
\* record without "time", ValueError when hh, mm = map(int, time_str.split(":"))
\* does not get two numbers or datetime() is given an hour or minute out of range
Raises(ev) ==
    \/ "time" \notin DOMAIN ev
    \/ Len(ev.time) # 2
    \/ ev.time[1] \notin 0..23
    \/ ev.time[2] \notin 0..59

\* the hour left out: pre_dt = event_dt
PreDt_NoHour(event_dt) == event_dt

\* pre_dt = event_dt - timedelta(hours=1)
PreDt(event_dt) == event_dt - PRE_HOURS * Hour

\* ev.get("name_en", ev.get("name", "event"))
name_key(ev) ==
    IF "name_en" \in DOMAIN ev THEN ev.name_en
    ELSE IF "name" \in DOMAIN ev THEN ev.name
    ELSE "event"

\* weekday in ev.get("days", [])
OnWeekday(ev, weekday) ==
    IF "days" \in DOMAIN ev THEN weekday \in ev.days ELSE FALSE

\* the test of the pre-announcement without its look into the ledger
PreDue_NoLedger(ev, t, sentToday) ==
    LET pre_dt == PreDt(next_event_datetime_for_day(ev.time, DateOf(t)))
    IN  /\ pre_dt <= t
        /\ t <= pre_dt + Window

\* the test of the pre-announcement
PreDue(ev, t, sentToday) ==
    LET pre_dt == PreDt(next_event_datetime_for_day(ev.time, DateOf(t)))
    IN  /\ pre_dt <= t
        /\ t <= pre_dt + Window
        /\ ~Contains(sentToday, "pre")

\* the test of the start announcement without its look into the ledger
StartDue_NoLedger(ev, t, sentToday) ==
    LET event_dt == next_event_datetime_for_day(ev.time, DateOf(t))
    IN  /\ event_dt <= t
        /\ t <= event_dt + Window

\* the test of the start announcement
StartDue(ev, t, sentToday) ==
    LET event_dt == next_event_datetime_for_day(ev.time, DateOf(t))
    IN  /\ event_dt <= t
        /\ t <= event_dt + Window
        /\ ~Contains(sentToday, "start")

\* the loading of the ledger with sent[today_str] = {} done unconditionally
LoadLedger_ResetsToday(file, today) ==
    Put(load_json(file, EmptyDict), today, EmptyDict)

\* sent = load_json(SENT_FILE, {}); if today_str not in sent: sent[today_str] = {}
LoadLedger(file, today) ==
    LET s == load_json(file, EmptyDict)
    IN  IF today \in DOMAIN s THEN s ELSE Put(s, today, EmptyDict)

\* sent_today = sent[today_str].get(name_key, [])
SentToday(ledger, today, name) == Get(ledger[today], name, <<>>)

\* a mark that is lost: sent_today is left as it was
MarkSent_Dropped(sentToday, phase) == sentToday

\* sent_today.append(phase)
MarkSent(sentToday, phase) == Append(sentToday, phase)

\* the storing that replaces what is under the date: sent[today_str] = {name_key: sent_today}
StoreSentToday_ReplacesDay(ledger, today, name, sentToday) ==
    IF sentToday # <<>>
    THEN Put(ledger, today, Put(EmptyDict, name, sentToday))
    ELSE ledger

\* if sent_today: sent[today_str][name_key] = sent_today
StoreSentToday(ledger, today, name, sentToday) ==
    IF sentToday # <<>>
    THEN Put(ledger, today, Put(ledger[today], name, sentToday))
    ELSE ledger

\* the saving done whether or not anything was marked
SaveLedger_Always(file, ledger, isChanged) == save_json(file, ledger)

\* the saving left out: the file stays as it was
SaveLedger_Never(file, ledger, isChanged) == file

\* if changed: save_json(SENT_FILE, sent)
SaveLedger(file, ledger, isChanged) ==
    IF isChanged THEN save_json(file, ledger) ELSE file

(***************************************************************************)
(* State.                                                                  *)
(***************************************************************************)
VARIABLES
    clock,          \* datetime.utcnow() of the host
    eventsFile,     \* events.json
    sentFile,       \* sent_records.json
    pc,             \* where the process stands in events_watch_loop
    last_hash,      \* events_watch_loop: last_hash
    current_hash,   \* events_watch_loop: current_hash
    events,         \* events_watch_loop: events
    caller,         \* which call of check_and_send_once is running ("idle": none)
    now,            \* check_and_send_once: now
    sent,           \* check_and_send_once: sent
    changed,        \* check_and_send_once: changed
    idx,            \* check_and_send_once: position of "for ev in events"
    sent_today,     \* check_and_send_once: sent_today
    sends,          \* every call of send_message so far, in order
    failed,         \* the latest call of send_message that raised inside (0: none)
    ticks, edits, restarts, crashes,   \* counters that bound the behaviours
    mark            \* the instant of the last start of the process, and what was
                    \* sent and what was recorded by then

vars == << window, clock, eventsFile, sentFile, pc, last_hash, current_hash, events,
           caller, now, sent, changed, idx, sent_today, sends, failed,
           ticks, edits, restarts, crashes, mark >>

env == << window, clock, eventsFile, ticks, edits, restarts, crashes, mark >>
loopVars == << last_hash, current_hash, events, caller >>
checkVars == << now, sent, changed, idx, sent_today >>

Phases == {"pre", "start"}

\* the (date, name, phase) a ledger (dict date -> name -> list of phases) holds
KeysOf(ledger) ==
    { k \in (DOMAIN ledger) \X (UNION { DOMAIN ledger[d] : d \in DOMAIN ledger }) \X Phases :
        /\ k[2] \in DOMAIN ledger[k[1]]
        /\ Contains(ledger[k[1]][k[2]], k[3]) }

\* the (date, name, phase) that sent_records.json records as sent
Recorded(file) == KeysOf(load_json(file, EmptyDict))

\* one call of send_message, as the log keeps it
SendRec(ev, phase, t) ==
    [name |-> name_key(ev), phase |-> phase, at |-> t, ev |-> ev]

\* the occurrence a logged send is about
KeyOf(s) == << DateOf(s.at), s.name, s.phase >>

Range(f) == { f[i] : i \in DOMAIN f }

Init ==
    /\ clock \in StartTimes
    /\ eventsFile \in Range(EventFiles)
    /\ sentFile = MissingFile
    /\ pc = "boot_hash"
    /\ last_hash = 0
    /\ current_hash = 0
    /\ events = <<>>
    /\ caller = "boot"
    /\ now = clock
    /\ sent = EmptyDict
    /\ changed = FALSE
    /\ idx = 0
    /\ sent_today = <<>>
    /\ sends = <<>>
    /\ failed = 0
    /\ ticks = 0 /\ edits = 0 /\ restarts = 0 /\ crashes = 0
    /\ window = WINDOW_MINUTES
    /\ mark = [at |-> clock, sends |-> 0, recorded |-> {}]

(***************************************************************************)
(* events_watch_loop.                                                      *)
(***************************************************************************)
\* last_hash = file_hash(EVENTS_FILE)
BootHash ==
    /\ pc = "boot_hash"
    /\ last_hash' = file_hash(eventsFile)
    /\ pc' = "boot_load"
    /\ UNCHANGED << env, sentFile, current_hash, events, caller, checkVars, sends, failed >>

\* events = load_json(EVENTS_FILE, []), then the immediate check
BootLoad ==
    /\ pc = "boot_load"
    /\ events' = load_json(eventsFile, <<>>)
    /\ caller' = "boot"
    /\ pc' = "call"
    /\ UNCHANGED << env, sentFile, last_hash, current_hash, checkVars, sends, failed >>

\* await asyncio.sleep(60); current_hash = file_hash(EVENTS_FILE);
\* if current_hash != last_hash.  A round of the loop takes the sleep and
\* whatever the check before it took.
SleepWake ==
    /\ pc = "sleep"
    /\ ticks < MaxTicks
    /\ \E d \in Drifts : clock' = clock + Sleep + d
    /\ ticks' = ticks + 1
    /\ current_hash' = file_hash(eventsFile)
    /\ IF current_hash' # last_hash
       THEN pc' = "reload" /\ caller' = "reload"
       ELSE pc' = "call" /\ caller' = "regular"
    /\ UNCHANGED << window, eventsFile, edits, restarts, crashes, mark, sentFile,
                    last_hash, events, checkVars, sends, failed >>

\* a reload that also clears the sent records ("clear old sent_records ...?")
Reload_Clearing ==
    /\ pc = "reload"
    /\ events' = load_json(eventsFile, <<>>)
    /\ sentFile' = MissingFile
    /\ pc' = "call"
    /\ UNCHANGED << env, last_hash, current_hash, caller, checkVars, sends, failed >>

\* events = load_json(EVENTS_FILE, []), then the check on the new list
Reload ==
    /\ pc = "reload"
    /\ events' = load_json(eventsFile, <<>>)
    /\ pc' = "call"
    /\ UNCHANGED << env, sentFile, last_hash, current_hash, caller, checkVars, sends, failed >>

(***************************************************************************)
(* check_and_send_once(events).                                            *)
(***************************************************************************)
\* now = datetime.utcnow(); sent = load_json(SENT_FILE, {}); changed = False
Call ==
    /\ pc = "call"
    /\ now' = clock
    /\ sent' = LoadLedger(sentFile, DateOf(clock))
    /\ changed' = FALSE
    /\ idx' = 1
    /\ sent_today' = <<>>
    /\ pc' = "loop"
    /\ UNCHANGED << env, sentFile, loopVars, sends, failed >>

\* send_message without its try/except: an exception of bot.send_message
\* leaves check_and_send_once and events_watch_loop, and the loop is over
send_message_raises(ev, phase, next) ==
    /\ sends' = Append(sends, SendRec(ev, phase, now))
    /\ \E ok \in BOOLEAN :
         /\ failed' = IF ok THEN failed ELSE Len(sends')
         /\ pc' = IF ok THEN next ELSE "dead"

\* await send_message(text, thread_id): bot.send_message delivers or raises; an
\* exception is logged and swallowed, and the caller goes on at next either way
send_message(ev, phase, next) ==
    /\ sends' = Append(sends, SendRec(ev, phase, now))
    /\ \E ok \in BOOLEAN : failed' = IF ok THEN failed ELSE Len(sends')
    /\ pc' = next

\* for ev in events: the weekday test, the reading of sent_today and the
\* pre-announcement, up to its await of send_message.  An exception of
\* next_event_datetime_for_day is caught nowhere before main(): it leaves
\* check_and_send_once, events_watch_loop and asyncio.run, main() logs it and
\* returns, and the loop is over.
Loop ==
    /\ pc = "loop"
    /\ IF idx > Len(events)
       THEN pc' = "save" /\ UNCHANGED << idx, sent_today, sends, failed >>
       ELSE IF ~OnWeekday(events[idx], WeekdayOf(now))
       THEN pc' = "loop" /\ idx' = idx + 1 /\ UNCHANGED << sent_today, sends, failed >>
       ELSE IF Raises(events[idx])
       THEN pc' = "dead" /\ UNCHANGED << idx, sent_today, sends, failed >>
       ELSE /\ sent_today' = SentToday(sent, DateOf(now), name_key(events[idx]))
            /\ UNCHANGED idx
            /\ IF PreDue(events[idx], now, sent_today')
               THEN send_message(events[idx], "pre", "pre_mark")
               ELSE pc' = "start" /\ UNCHANGED << sends, failed >>
    /\ UNCHANGED << env, sentFile, loopVars, now, sent, changed >>

\* send_message has returned: sent_today.append("pre"); changed = True
PreMark ==
    /\ pc = "pre_mark"
    /\ sent_today' = MarkSent(sent_today, "pre")
    /\ changed' = TRUE
    /\ pc' = "start"
    /\ UNCHANGED << env, sentFile, loopVars, now, sent, idx, sends, failed >>

\* the start announcement, up to its await of send_message; when it is not
\* due: if sent_today: sent[today_str][name_key] = sent_today, and the next event
Start ==
    /\ pc = "start"
    /\ IF StartDue(events[idx], now, sent_today)
       THEN /\ send_message(events[idx], "start", "start_mark")
            /\ UNCHANGED checkVars
       ELSE /\ sent' = StoreSentToday(sent, DateOf(now), name_key(events[idx]), sent_today)
            /\ idx' = idx + 1
            /\ sent_today' = <<>>
            /\ pc' = "loop"
            /\ UNCHANGED << now, changed, sends, failed >>
    /\ UNCHANGED << env, sentFile, loopVars >>

\* send_message has returned: sent_today.append("start"); changed = True;
\* sent[today_str][name_key] = sent_today, and the next event
StartMark ==
    /\ pc = "start_mark"
    /\ sent' = StoreSentToday(sent, DateOf(now), name_key(events[idx]),
                              MarkSent(sent_today, "start"))
    /\ changed' = TRUE
    /\ idx' = idx + 1
    /\ sent_today' = <<>>
    /\ pc' = "loop"
    /\ UNCHANGED << env, sentFile, loopVars, now, sends, failed >>

\* if changed: save_json(SENT_FILE, sent); the call returns, and after the
\* check of a reload last_hash = current_hash
Save ==
    /\ pc = "save"
    /\ sentFile' = SaveLedger(sentFile, sent, changed)
    /\ last_hash' = IF caller = "reload" THEN current_hash ELSE last_hash
    /\ pc' = "sleep"
    /\ sent' = EmptyDict /\ changed' = FALSE /\ idx' = 0 /\ sent_today' = <<>>
    /\ caller' = "idle" /\ current_hash' = 0
    /\ UNCHANGED << env, events, now, sends, failed >>

(***************************************************************************)
(* The environment.                                                        *)
(***************************************************************************)
\* events.json is edited from outside.  An edit made while a check runs is
\* read by the loop no earlier than one made right after the check, so edits
\* are taken where the loop is about to read the file.
Edit ==
    /\ pc \in {"boot_load", "sleep", "reload"}
    /\ edits < MaxEdits
    /\ \E f \in Range(EventFiles) : f # eventsFile /\ eventsFile' = f
    /\ edits' = edits + 1
    /\ UNCHANGED << window, clock, ticks, restarts, crashes, mark, sentFile, pc,
                    loopVars, checkVars, sends, failed >>

\* what a start of the process finds and sets up: nothing in memory survives
Boot(downtime) ==
    /\ clock' = clock + downtime
    /\ pc' = "boot_hash"
    /\ last_hash' = 0 /\ current_hash' = 0 /\ events' = <<>> /\ caller' = "boot"
    /\ sent' = EmptyDict /\ changed' = FALSE /\ idx' = 0 /\ sent_today' = <<>>
    /\ UNCHANGED << window, now, sends, failed, eventsFile, ticks, edits >>

\* the process is stopped while it sleeps and started again later
Restart ==
    /\ pc = "sleep"
    /\ restarts < MaxRestarts
    /\ \E d \in DownTimes : Boot(d)
    /\ restarts' = restarts + 1
    /\ mark' = [at |-> clock', sends |-> Len(sends), recorded |-> Recorded(sentFile)]
    /\ UNCHANGED << sentFile, crashes >>

Next ==
    \/ BootHash \/ BootLoad \/ SleepWake \/ Reload
    \/ Call \/ Loop \/ PreMark \/ Start \/ StartMark \/ Save
    \/ Edit \/ Restart

Spec == Init /\ [][Next]_vars


(***************************************************************************)
(* Records of events.json that cannot be evaluated.  events.json starts    *)
(* with, or is edited to, any content the model knows, the malformed ones  *)
(* included.                                                               *)
(***************************************************************************)
InitMalformed ==
    /\ clock \in StartTimes
    /\ eventsFile \in Range(KnownFiles)
    /\ sentFile = MissingFile
    /\ pc = "boot_hash"
    /\ last_hash = 0
    /\ current_hash = 0
    /\ events = <<>>
    /\ caller = "boot"
    /\ now = clock
    /\ sent = EmptyDict
    /\ changed = FALSE
    /\ idx = 0
    /\ sent_today = <<>>
    /\ sends = <<>>
    /\ failed = 0
    /\ ticks = 0 /\ edits = 0 /\ restarts = 0 /\ crashes = 0
    /\ window = WINDOW_MINUTES
    /\ mark = [at |-> clock, sends |-> 0, recorded |-> {}]

\* events.json is edited from outside to any content, well formed or not
EditAny ==
    /\ pc \in {"boot_load", "sleep", "reload"}
    /\ edits < MaxEdits
    /\ \E f \in Range(KnownFiles) : f # eventsFile /\ eventsFile' = f
    /\ edits' = edits + 1
    /\ UNCHANGED << window, clock, ticks, restarts, crashes, mark, sentFile, pc,
                    loopVars, checkVars, sends, failed >>

NextMalformed ==
    \/ BootHash \/ BootLoad \/ SleepWake \/ Reload
    \/ Call \/ Loop \/ PreMark \/ Start \/ StartMark \/ Save
    \/ EditAny

SpecMalformed == InitMalformed /\ [][NextMalformed]_vars

\* The steps of the one task that runs events_watch_loop.  The event loop of
\* asyncio resumes the task whenever what it awaits is over: asyncio.sleep(60)
\* ends, and the call of bot.send_message is taken to return or raise (the
\* code itself passes no timeout), so a step that can be taken is taken.
LoopStep ==
    \/ BootHash \/ BootLoad \/ SleepWake \/ Reload
    \/ Call \/ Loop \/ PreMark \/ Start \/ StartMark \/ Save

FairMalformed == SpecMalformed /\ WF_vars(LoopStep)

(***************************************************************************)
(* Edits of events.json that interleave with the two reads of the loop,    *)
(* file_hash and load_json: before the first, between the two, and after   *)
(* both, several of them in one round.                                     *)
(***************************************************************************)
InitSwap ==
    /\ clock = At(0, 10, 58)
    /\ eventsFile \in Range(EventFiles)
    /\ sentFile = MissingFile
    /\ pc = "boot_hash"
    /\ last_hash = 0
    /\ current_hash = 0
    /\ events = <<>>
    /\ caller = "boot"
    /\ now = clock
    /\ sent = EmptyDict
    /\ changed = FALSE
    /\ idx = 0
    /\ sent_today = <<>>
    /\ sends = <<>>
    /\ failed = 0
    /\ ticks = 0 /\ edits = 0 /\ restarts = 0 /\ crashes = 0
    /\ window = WINDOW_MINUTES
    /\ mark = [at |-> clock, sends |-> 0, recorded |-> {}]

\* events.json is edited from outside, where the loop is about to read it
EditSwap ==
    /\ pc \in {"boot_load", "sleep", "reload"}
    /\ edits < MaxSwaps
    /\ \E f \in Range(EventFiles) : f # eventsFile /\ eventsFile' = f
    /\ edits' = edits + 1
    /\ UNCHANGED << window, clock, ticks, restarts, crashes, mark, sentFile, pc,
                    loopVars, checkVars, sends, failed >>

NextSwap ==
    \/ BootHash \/ BootLoad \/ SleepWake \/ Reload
    \/ Call \/ Loop \/ PreMark \/ Start \/ StartMark \/ Save
    \/ EditSwap

SpecSwap == InitSwap /\ [][NextSwap]_vars

(***************************************************************************)
(* The window as the environment sets it.  The process is started with     *)
(* WINDOW_MINUTES taken from the environment, below, at and above the      *)
(* hour between the two announcements, and the loop runs.                  *)
(***************************************************************************)
WindowChoices == { 0, 1, 5, 30, 59, 60, 61 }

WindowTimes ==
    { At(0, 0, 28), At(0, 10, 59), At(0, 11, 58), At(0, 11, 59), At(0, 11, 59) + 1,
      At(0, 12, 0), At(0, 12, 30), At(0, 23, 59) }

InitWindow ==
    /\ window \in WindowChoices
    /\ clock \in WindowTimes
    /\ eventsFile \in Range(EventFiles)
    /\ sentFile = MissingFile
    /\ pc = "boot_hash"
    /\ last_hash = 0
    /\ current_hash = 0
    /\ events = <<>>
    /\ caller = "boot"
    /\ now = clock
    /\ sent = EmptyDict
    /\ changed = FALSE
    /\ idx = 0
    /\ sent_today = <<>>
    /\ sends = <<>>
    /\ failed = 0
    /\ ticks = 0 /\ edits = 0 /\ restarts = 0 /\ crashes = 0
    /\ mark = [at |-> clock, sends |-> 0, recorded |-> {}]

NextWindow ==
    \/ BootHash \/ BootLoad \/ SleepWake
    \/ Call \/ Loop \/ PreMark \/ Start \/ StartMark \/ Save

SpecWindow == InitWindow /\ [][NextWindow]_vars

(***************************************************************************)
(* Faults of the disk.  save_json logs and swallows an exception of        *)
(* write_text: the file is as before when it could not be opened, and      *)
(* truncated, so that json.loads rejects it, when the write failed after   *)
(* the opening.  Between two checks the file may be removed or made        *)
(* unreadable from outside; load_json then gives the default.              *)
(***************************************************************************)
InitDisk ==
    /\ clock \in { At(0, 10, 58), At(0, 11, 4) + 1 }
    /\ eventsFile \in Range(EventFiles)
    /\ sentFile = MissingFile
    /\ pc = "boot_hash"
    /\ last_hash = 0
    /\ current_hash = 0
    /\ events = <<>>
    /\ caller = "boot"
    /\ now = clock
    /\ sent = EmptyDict
    /\ changed = FALSE
    /\ idx = 0
    /\ sent_today = <<>>
    /\ sends = <<>>
    /\ failed = 0
    /\ ticks = 0 /\ edits = 0 /\ restarts = 0 /\ crashes = 0
    /\ window = WINDOW_MINUTES
    /\ mark = [at |-> clock, sends |-> 0, recorded |-> {}]

\* if changed: save_json(SENT_FILE, sent), write_text raising inside save_json;
\* the call returns as after a write that succeeded
SaveFailed ==
    /\ pc = "save"
    /\ changed
    /\ sentFile' \in { sentFile, CorruptFile }
    /\ last_hash' = IF caller = "reload" THEN current_hash ELSE last_hash
    /\ pc' = "sleep"
    /\ sent' = EmptyDict /\ changed' = FALSE /\ idx' = 0 /\ sent_today' = <<>>
    /\ caller' = "idle" /\ current_hash' = 0
    /\ UNCHANGED << env, events, now, sends, failed >>

\* sent_records.json is removed or made unreadable while the loop sleeps
Damage ==
    /\ pc = "sleep"
    /\ sentFile.state = "written"
    /\ sentFile' \in { MissingFile, CorruptFile }
    /\ UNCHANGED << env, pc, loopVars, checkVars, sends, failed >>

NextDisk ==
    \/ BootHash \/ BootLoad \/ SleepWake
    \/ Call \/ Loop \/ PreMark \/ Start \/ StartMark \/ Save
    \/ SaveFailed \/ Damage

SpecDisk == InitDisk /\ [][NextDisk]_vars

(***************************************************************************)
(* Crashes.  The process dies inside check_and_send_once and is started    *)
(* again later.  Path.write_text truncates the file and then writes it, so *)
(* a crash inside save_json leaves the old file (not yet opened), a file   *)
(* json.loads rejects (truncated or partly written), or the new file.      *)
(***************************************************************************)
InCheck == {"call", "loop", "pre_mark", "start", "start_mark", "save"}

Crash ==
    /\ pc \in InCheck
    /\ crashes < MaxCrashes
    /\ \E d \in DownTimes : Boot(d)
    /\ crashes' = crashes + 1
    /\ sentFile' \in IF pc = "save" /\ changed
                     THEN {sentFile, CorruptFile, SaveLedger(sentFile, sent, changed)}
                     ELSE {sentFile}
    /\ mark' = [at |-> clock', sends |-> Len(sends), recorded |-> Recorded(sentFile')]
    /\ UNCHANGED restarts

NextCrash ==
    \/ BootHash \/ BootLoad \/ SleepWake
    \/ Call \/ Loop \/ PreMark \/ Start \/ StartMark \/ Save
    \/ Crash

SpecCrash == Init /\ [][NextCrash]_vars

(***************************************************************************)
(* check_and_send_once run again at the same instant: the evaluation is    *)
(* applied to an event list, an instant and a ledger file, and then        *)
(* applied again to the same list at the same instant and the file the     *)
(* run before left.                                                        *)
(***************************************************************************)
EvalTimes ==
    { At(0, 10, 0), At(0, 11, 2),
      At(0, 10, 59) + 1, At(0, 11, 0), At(0, 11, 2) + 1, At(0, 11, 5), At(0, 11, 5) + 1,
      At(0, 12, 0), At(0, 12, 5), At(0, 12, 7), At(0, 23, 30), At(1, 0, 0), At(1, 0, 3),
      At(1, 0, 30), At(1, 11, 0), At(1, 12, 3) }

EvalLedgers ==
    { MissingFile,
      CorruptFile,
      save_json(MissingFile, EmptyDict),
      JsonFile(Put(EmptyDict, 0, EmptyDict)),
      JsonFile(Put(EmptyDict, 0, Put(EmptyDict, "AGB", <<"pre">>))),
      JsonFile(Put(EmptyDict, 0, Put(Put(EmptyDict, "AGB", <<"pre">>), "Raid", <<"pre", "start">>))),
      JsonFile(Put(Put(EmptyDict, 0, Put(EmptyDict, "Night", <<"start">>)), 1, EmptyDict)) }

InitEval ==
    /\ clock \in EvalTimes
    /\ eventsFile \in Range(EventFiles)
    /\ sentFile \in EvalLedgers
    /\ pc = "boot_hash"
    /\ last_hash = 0
    /\ current_hash = 0
    /\ events = <<>>
    /\ caller = "boot"
    /\ now = clock
    /\ sent = EmptyDict
    /\ changed = FALSE
    /\ idx = 0
    /\ sent_today = <<>>
    /\ sends = <<>>
    /\ failed = 0
    /\ ticks = 0 /\ edits = 0 /\ restarts = 0 /\ crashes = 0
    /\ window = WINDOW_MINUTES
    /\ mark = [at |-> clock, sends |-> 0, recorded |-> {}]

\* the same call once more, the clock standing still
Rerun ==
    /\ pc = "sleep"
    /\ ticks < MaxTicks
    /\ ticks' = ticks + 1
    /\ caller' = "regular"
    /\ pc' = "call"
    /\ mark' = [at |-> mark.at, sends |-> Len(sends), recorded |-> Recorded(sentFile)]
    /\ UNCHANGED << window, clock, eventsFile, edits, restarts, crashes, sentFile,
                    last_hash, current_hash, events, checkVars, sends, failed >>

NextEval ==
    \/ BootHash \/ BootLoad
    \/ Call \/ Loop \/ PreMark \/ Start \/ StartMark \/ Save
    \/ Rerun

SpecEval == InitEval /\ [][NextEval]_vars


(***************************************************************************)
(* save_json and load_json on their own: a ledger (dict date -> name ->    *)
(* list of phases) is written to sent_records.json, whatever the file was  *)
(* before, and read back.                                                  *)
(***************************************************************************)
PhaseLists == UNION { [1..n -> Phases] : n \in 0..MaxPhases }
NameDicts == UNION { [ns -> PhaseLists] : ns \in SUBSET {"AGB", "Raid"} }
Ledgers == UNION { [ds -> NameDicts] : ds \in SUBSET {0, 1} }

InitStore ==
    /\ clock = At(0, 11, 0)
    /\ eventsFile = MissingFile
    /\ sentFile \in { MissingFile, CorruptFile,
                       save_json(MissingFile, Put(EmptyDict, 0, Put(EmptyDict, "AGB", <<"pre">>))) }
    /\ pc = "persist"
    /\ last_hash = 0
    /\ current_hash = 0
    /\ events = <<>>
    /\ caller = "idle"
    /\ now = clock
    /\ sent \in Ledgers
    /\ changed = TRUE
    /\ idx = 0
    /\ sent_today = <<>>
    /\ sends = <<>>
    /\ failed = 0
    /\ ticks = 0 /\ edits = 0 /\ restarts = 0 /\ crashes = 0
    /\ window = WINDOW_MINUTES
    /\ mark = [at |-> clock, sends |-> 0, recorded |-> {}]

\* save_json(SENT_FILE, sent)
Persist ==
    /\ pc = "persist"
    /\ sentFile' = save_json(sentFile, sent)
    /\ pc' = "load"
    /\ UNCHANGED << env, loopVars, checkVars, sends, failed >>

\* sent = load_json(SENT_FILE, {})
LoadBack ==
    /\ pc = "load"
    /\ sent' = load_json(sentFile, EmptyDict)
    /\ pc' = "loaded"
    /\ UNCHANGED << env, sentFile, loopVars, now, changed, idx, sent_today, sends, failed >>

NextStore == Persist \/ LoadBack

SpecStore == InitStore /\ [][NextStore]_vars

(***************************************************************************)
(* One check on a ledger given from outside: sent_records.json holds any   *)
(* ledger of Ledgers when check_and_send_once is called.                   *)
(***************************************************************************)
LedgerTimes == { At(0, 11, 2), At(0, 12, 30), At(1, 12, 0) }

InitLedger ==
    /\ clock \in LedgerTimes
    /\ eventsFile \in { EventFiles[1], EventFiles[2] }
    /\ sentFile \in { save_json(MissingFile, l) : l \in Ledgers }
    /\ pc = "boot_hash"
    /\ last_hash = 0
    /\ current_hash = 0
    /\ events = <<>>
    /\ caller = "boot"
    /\ now = clock
    /\ sent = EmptyDict
    /\ changed = FALSE
    /\ idx = 0
    /\ sent_today = <<>>
    /\ sends = <<>>
    /\ failed = 0
    /\ ticks = 0 /\ edits = 0 /\ restarts = 0 /\ crashes = 0
    /\ window = WINDOW_MINUTES
    /\ mark = [at |-> clock, sends |-> 0, recorded |-> {}]

NextLedger ==
    \/ BootHash \/ BootLoad
    \/ Call \/ Loop \/ PreMark \/ Start \/ StartMark \/ Save

SpecLedger == InitLedger /\ [][NextLedger]_vars

(***************************************************************************)
(* Notions the properties are stated in.                                   *)
(***************************************************************************)
\* the instant a phase of the occurrence of ev on date d is to be announced
Trigger(ev, d, phase) ==
    IF phase = "pre"
    THEN PreDt(next_event_datetime_for_day(ev.time, d))
    ELSE next_event_datetime_for_day(ev.time, d)

\* ev has an occurrence on date d
OccursOn(ev, d) == OnWeekday(ev, WeekdayNames[(d % 7) + 1])

\* a check of the list in events has run to its end at the instant now
CheckDone == pc = "sleep"

\* the calls of send_message so far that are about the occurrence k
SendsFor(k) == { i \in 1..Len(sends) : KeyOf(sends[i]) = k }

\* a ledger whose lists hold phases of {pre, start}, none of them twice
WellFormed(ledger) ==
    \A d \in DOMAIN ledger : \A n \in DOMAIN ledger[d] :
        LET l == ledger[d][n]
        IN  /\ \A i \in 1..Len(l) : l[i] \in Phases
            /\ \A i, j \in 1..Len(l) : l[i] = l[j] => i = j

\* the list b is the list a with phases appended, or a itself
IsPrefix(a, b) == Len(a) <= Len(b) /\ SubSeq(b, 1, Len(a)) = a

(***************************************************************************)
(* C1  At most once: whatever the number of checks that fall inside the    *)
(* window of a phase, send_message is called at most once for any          *)
(* (event name, calendar date, phase).                                     *)
(***************************************************************************)
C1_AtMostOnce ==
    \A i, j \in 1..Len(sends) : KeyOf(sends[i]) = KeyOf(sends[j]) => i = j

\* a check ends two sleeps or more after a pre-announcement, still inside
\* the window of the event it was sent for, the event still being listed
C1_Witness ==
    /\ CheckDone
    /\ \E i \in 1..Len(sends) :
         /\ sends[i].phase = "pre"
         /\ sends[i].ev \in Range(events)
         /\ now >= sends[i].at + 2 * Sleep
         /\ PreDue(sends[i].ev, now, <<>>)

(***************************************************************************)
(* C2  Never zero: when the loop has run throughout the window             *)
(* [trigger, trigger + WINDOW) of a phase of an occurrence of a listed     *)
(* event (the process is up since the trigger instant or before, and a     *)
(* check has run less than one sleep before the end of the window), a      *)
(* notification of that event and phase has been sent inside the window.   *)
(***************************************************************************)
C2_NeverZero ==
    CheckDone =>
        \A e \in Range(events), ph \in Phases, d \in {DateOf(now), DateOf(now) + 1} :
            ( /\ OccursOn(e, d)
              /\ mark.at <= Trigger(e, d, ph)
              /\ now < Trigger(e, d, ph) + Window
              /\ now + Sleep >= Trigger(e, d, ph) + Window )
            => \E i \in 1..Len(sends) :
                  /\ sends[i].name = name_key(e)
                  /\ sends[i].phase = ph
                  /\ Trigger(e, d, ph) <= sends[i].at
                  /\ sends[i].at < Trigger(e, d, ph) + Window

(***************************************************************************)
(* C3  For every occurrence, whatever its time of day, a check that runs   *)
(* at the instant one hour before the event sends the pre-announcement     *)
(* and a check that runs at the instant of the event sends the start       *)
(* announcement, also when the earlier instant is on the day before.       *)
(***************************************************************************)
C3_SentAtInstant ==
    CheckDone =>
        \A e \in Range(events), ph \in Phases, d \in {DateOf(now), DateOf(now) + 1} :
            (OccursOn(e, d) /\ now = Trigger(e, d, ph))
            => \E i \in 1..Len(sends) :
                  /\ sends[i].name = name_key(e)
                  /\ sends[i].phase = ph
                  /\ sends[i].at = now

(***************************************************************************)
(* C4  The window is half open: a check at an instant in                   *)
(* [trigger, trigger + WINDOW) leaves the phase recorded as sent, and no   *)
(* notification is sent by a check at trigger + WINDOW exactly.            *)
(***************************************************************************)
C4_HalfOpenWindow ==
    /\ CheckDone =>
          \A e \in Range(events), ph \in Phases :
              ( /\ OccursOn(e, DateOf(now))
                /\ Trigger(e, DateOf(now), ph) <= now
                /\ now < Trigger(e, DateOf(now), ph) + Window )
              => << DateOf(now), name_key(e), ph >> \in Recorded(sentFile)
    /\ \A i \in 1..Len(sends) :
          sends[i].at # Trigger(sends[i].ev, DateOf(sends[i].at), sends[i].phase) + Window

(***************************************************************************)
(* C5  Reload safety: the reload of events.json leaves sent_records.json   *)
(* as it is, the check that follows it drops no entry of the ledger, and   *)
(* no check, whatever list it runs on, sends a (date, name, phase) that    *)
(* sent_records.json records.                                              *)
(***************************************************************************)
C5_ReloadSafety ==
    [][ /\ (pc = "reload" /\ pc' = "call") => sentFile' = sentFile
        /\ caller = "reload" => Recorded(sentFile) \subseteq Recorded(sentFile')
        /\ Len(sends') > Len(sends)
              => KeyOf(sends'[Len(sends')]) \notin Recorded(sentFile)
      ]_vars

\* the check after a reload has gone through the new list and has met an
\* event that is inside the window of its pre-announcement, under a name
\* whose pre-announcement of the day was sent before the reload for an event
\* with another time
C5_Witness ==
    /\ pc = "save"
    /\ caller = "reload"
    /\ \E e \in Range(events), i \in 1..Len(sends) :
         /\ sends[i].name = name_key(e)
         /\ sends[i].ev # e
         /\ DateOf(sends[i].at) = DateOf(now)
         /\ KeyOf(sends[i]) \in Recorded(sentFile)
         /\ sends[i].phase = "pre"
         /\ PreDue(e, now, <<>>)

(***************************************************************************)
(* C6  Restart idempotence: after the process was stopped between two      *)
(* checks and started again, neither the check at startup nor a later one  *)
(* sends a (date, name, phase) that sent_records.json recorded when the    *)
(* process started.                                                        *)
(***************************************************************************)
C6_RestartIdempotence ==
    \A i \in 1..Len(sends) :
        i > mark.sends => KeyOf(sends[i]) \notin mark.recorded

\* after a restart a check has ended inside the window of a listed event
\* whose pre-announcement of the day was recorded before the restart
C6_Witness ==
    /\ CheckDone
    /\ restarts > 0
    /\ \E e \in Range(events) :
         /\ << DateOf(now), name_key(e), "pre" >> \in mark.recorded
         /\ OccursOn(e, DateOf(now))
         /\ PreDue(e, now, <<>>)

(***************************************************************************)
(* C7  Crash tolerance: with crashes inside checks, an occurrence is sent  *)
(* at most once more per crash, and sent_records.json never records an     *)
(* occurrence for which send_message was not called.                       *)
(***************************************************************************)
C7_CrashTolerance ==
    /\ \A i \in 1..Len(sends) : Cardinality(SendsFor(KeyOf(sends[i]))) <= 1 + crashes
    /\ \A k \in Recorded(sentFile) : SendsFor(k) # {}

\* an occurrence was sent, the process crashed before the ledger was saved,
\* and the occurrence was sent again after the start
C7_Witness ==
    /\ crashes > 0
    /\ CheckDone
    /\ \E i \in 1..Len(sends) :
         /\ i <= mark.sends
         /\ Cardinality(SendsFor(KeyOf(sends[i]))) = 2
         /\ KeyOf(sends[i]) \in Recorded(sentFile)

(***************************************************************************)
(* C8  Idempotence: check_and_send_once run again on the same list at the  *)
(* same instant, with the ledger the run before left, sends nothing and    *)
(* marks nothing.                                                          *)
(***************************************************************************)
C8_Idempotence ==
    ticks > 0 =>
        /\ Len(sends) = mark.sends
        /\ changed = FALSE
        /\ pc \notin {"pre_mark", "start_mark"}
        /\ Recorded(sentFile) = mark.recorded
        /\ pc \in {"loop", "start", "save"} =>
              KeysOf(sent) = mark.recorded

\* the second run has ended, and the first had sent
C8_Witness ==
    /\ ticks > 0
    /\ CheckDone
    /\ Len(sends) > 0
    /\ \E e \in Range(events) : PreDue(e, now, <<>>) \/ StartDue(e, now, <<>>)

(***************************************************************************)
(* C9  No catch-up: every notification is sent at an instant inside the    *)
(* window [trigger, trigger + WINDOW) of its phase, never before the       *)
(* trigger instant and never once the window has closed; so a window that  *)
(* passed without a check is not made up for later that day.               *)
(***************************************************************************)
C9_NoCatchUp ==
    \A i \in 1..Len(sends) :
        LET t == Trigger(sends[i].ev, DateOf(sends[i].at), sends[i].phase)
        IN  t <= sends[i].at /\ sends[i].at < t + Window


(***************************************************************************)
(* C10  Failed delivery: a call of send_message that fails does not end    *)
(* the loop; the check goes on, marks the occurrence, and once the check   *)
(* has ended sent_records.json records it; it is the only call for that    *)
(* occurrence.                                                             *)
(***************************************************************************)
C10_FailedDelivery ==
    failed > 0 =>
        LET k == KeyOf(sends[failed])
        IN  /\ pc # "dead"
            /\ (failed = Len(sends) /\ pc = "pre_mark") => ENABLED PreMark
            /\ (failed = Len(sends) /\ pc = "start_mark") => ENABLED StartMark
            /\ pc \in {"sleep", "reload", "call", "boot_hash", "boot_load"}
                  => k \in Recorded(sentFile)
            /\ SendsFor(k) = {failed}

\* a send failed, and a later check has ended inside the same window
C10_Witness ==
    /\ failed > 0
    /\ CheckDone
    /\ now > sends[failed].at
    /\ sends[failed].ev \in Range(events)
    /\ \/ sends[failed].phase = "pre" /\ PreDue(sends[failed].ev, now, <<>>)
       \/ sends[failed].phase = "start" /\ StartDue(sends[failed].ev, now, <<>>)

(***************************************************************************)
(* C11  Error containment: an error raised inside a check (a record of     *)
(* events.json without a time, or with a time that is not HH:MM) does not  *)
(* end the loop: the loop is never over, and once the check is left the    *)
(* next round of the loop can run.                                         *)
(***************************************************************************)
C11_ErrorContained ==
    /\ pc # "dead"
    /\ (pc = "sleep" /\ ticks < MaxTicks) => ENABLED SleepWake

C12_SingleNotification ==
    [][ ( /\ pc = "save"
          /\ ticks = 0
          /\ load_json(sentFile, EmptyDict) = EmptyDict )
        => \A e \in Range(events) :
              ( /\ OccursOn(e, DateOf(now))
                /\ now = Trigger(e, DateOf(now), "pre")
                /\ \A o \in Range(events) \ {e} : \A ph \in Phases :
                      ~ ( /\ OccursOn(o, DateOf(now))
                          /\ Trigger(o, DateOf(now), ph) <= now
                          /\ now <= Trigger(o, DateOf(now), ph) + Window ) )
              => /\ sends = << SendRec(e, "pre", now) >>
                 /\ sentFile'.state = "written"
                 /\ load_json(sentFile', EmptyDict) =
                       Put(EmptyDict, DateOf(now), Put(EmptyDict, name_key(e), <<"pre">>))
      ]_vars

\* the first check of a list of two events has ended, at the instant one
\* hour before one of them, with one notification sent and one entry recorded
C12_Witness ==
    /\ CheckDone
    /\ ticks = 0
    /\ Len(events) = 2
    /\ \E e \in Range(events) :
         /\ OccursOn(e, DateOf(now))
         /\ now = Trigger(e, DateOf(now), "pre")
         /\ sends = << SendRec(e, "pre", now) >>
         /\ Recorded(sentFile) = { << DateOf(now), name_key(e), "pre" >> }

(***************************************************************************)
(* C14  Mark before send: when send_message is called for a due            *)
(* (event, phase), the phase is already marked in the ledger of the check, *)
(* and sent_records.json is written only after the call has ended: while   *)
(* the call is under way the file does not record the occurrence yet.      *)
(***************************************************************************)
C14_MarkBeforeSend ==
    /\ pc = "pre_mark" => Contains(sent_today, "pre")
    /\ pc = "start_mark" => Contains(sent_today, "start")
    /\ pc \in {"pre_mark", "start_mark"}
          => KeyOf(sends[Len(sends)]) \notin Recorded(sentFile)

(***************************************************************************)
(* C15  Bounded send: a send cannot hold up the loop for ever.  From any   *)
(* state in which a check is sending, the check comes to its end and the   *)
(* loop is back at its sleep, and from its sleep the loop starts the next  *)
(* round (as long as the model lets rounds start).                         *)
(***************************************************************************)
C15_BoundedSend ==
    /\ (pc \in {"pre_mark", "start_mark"}) ~> (pc = "sleep")
    /\ (pc = "sleep" /\ ticks < MaxTicks) ~> (pc \in {"reload", "call"})

(***************************************************************************)
(* C16  Hot swap: every check runs on the definitions events.json holds    *)
(* when the check starts, whatever the interleaving of the edits with      *)
(* file_hash and load_json; in particular a round that finds the file      *)
(* different from what the list in memory was loaded from reloads it.      *)
(***************************************************************************)
C16_HotSwap ==
    pc = "call" => events = load_json(eventsFile, <<>>)

(***************************************************************************)
(* C17  Both phases in one check only with a window of an hour or more:    *)
(* when WINDOW_MINUTES is below 60, no check sends both the                *)
(* pre-announcement and the start announcement of one event.               *)
(***************************************************************************)
C17_NotBothInOneTick ==
    window < 60 =>
        \A i, j \in 1..Len(sends) :
            (sends[i].at = sends[j].at /\ sends[i].ev = sends[j].ev)
            => sends[i].phase = sends[j].phase

\* with a window below the hour, a pre-announcement was sent still inside
\* its window one minute before the event, and the start announcement by
\* the next check, at the instant of the event or right after
C17_Witness ==
    /\ CheckDone
    /\ window < 60
    /\ \E i, j \in 1..Len(sends) :
         /\ sends[i].ev = sends[j].ev
         /\ sends[i].phase = "pre"
         /\ sends[j].phase = "start"
         /\ sends[j].at = now
         /\ sends[j].at - sends[i].at <= Sleep + 1

(***************************************************************************)
(* C18  Nothing due, nothing written: sent_records.json changes only at    *)
(* the end of a check that has sent a notification, so a check in which    *)
(* nothing is due leaves the file as it is, and the file never holds a     *)
(* date key for a date on which nothing was sent.                          *)
(***************************************************************************)
C18_NoWriteWhenNothingDue ==
    [][ /\ sentFile' # sentFile
            => (pc = "save" /\ \E i \in 1..Len(sends) : sends[i].at = now)
        /\ \A d \in DOMAIN load_json(sentFile', EmptyDict) :
               \E i \in 1..Len(sends') : DateOf(sends'[i].at) = d
      ]_vars

\* a check of a list with an event of the day has ended without a send, on a
\* date of which the file written earlier says nothing
C18_Witness ==
    /\ CheckDone
    /\ sentFile.state = "written"
    /\ \A i \in 1..Len(sends) : sends[i].at # now
    /\ \E e \in Range(events) : OccursOn(e, DateOf(now))
    /\ DateOf(now) \notin DOMAIN load_json(sentFile, EmptyDict)

(***************************************************************************)
(* C19  The loop's view of the ledger loses no mark: the ledger a check    *)
(* works on, from its start, holds every (date, name, phase) that an       *)
(* earlier check of the same process marked as sent, also when a write of  *)
(* sent_records.json failed or the file became unreadable in between.      *)
(* Every call of send_message of a check that ran to its end was followed  *)
(* by its mark.                                                            *)
(***************************************************************************)
C19_LedgerKeepsMarks ==
    pc \in {"loop", "pre_mark", "start", "start_mark", "save"} =>
        \A i \in 1..Len(sends) :
            sends[i].at < now => KeyOf(sends[i]) \in KeysOf(sent)

(***************************************************************************)
(* C20  Well-formedness of the ledger is kept by a check: when the ledger  *)
(* loaded maps every (date, name) to a list of phases of {pre, start}      *)
(* without a duplicate, so does the ledger the check persists; the check   *)
(* stores no empty list; every list of the loaded ledger is still there,   *)
(* with at most phases appended, and is the same for another date and for  *)
(* a name no listed event has.                                             *)
(***************************************************************************)
C20_WellFormedKept ==
    [][ (pc = "save" /\ WellFormed(load_json(sentFile, EmptyDict)))
        => LET old == load_json(sentFile, EmptyDict)
               new == load_json(sentFile', EmptyDict)
           IN  /\ WellFormed(new)
               /\ \A d \in DOMAIN new : \A n \in DOMAIN new[d] :
                     new[d][n] = <<>>
                     => (d \in DOMAIN old /\ n \in DOMAIN old[d] /\ old[d][n] = <<>>)
               /\ \A d \in DOMAIN old : \A n \in DOMAIN old[d] :
                     /\ d \in DOMAIN new
                     /\ n \in DOMAIN new[d]
                     /\ IsPrefix(old[d][n], new[d][n])
                     /\ ( \/ d # DateOf(now)
                          \/ \A e \in Range(events) : name_key(e) # n )
                        => new[d][n] = old[d][n]
      ]_vars

\* a check has ended that appended a phase to a list the ledger had for the
\* day, next to an entry of the day under another name and an entry of
\* another date
C20_Witness ==
    /\ CheckDone
    /\ Len(sends) = 1
    /\ LET l == load_json(sentFile, EmptyDict)
       IN  /\ DOMAIN l = {0, 1}
           /\ DOMAIN l[DateOf(now)] = {"AGB", "Raid"}
           /\ l[DateOf(now)][sends[1].name] = << "start", "pre" >>
           /\ \E n \in DOMAIN l[1 - DateOf(now)] : l[1 - DateOf(now)][n] # <<>>
           /\ \A e \in Range(events) : name_key(e) # "Raid"

====
